---- MODULE Spec2Model ----
(***************************************************************************)
(* A model of regione_rust (src/src/main.rs): the three interval           *)
(* randomizers, the gap budget, the overlap counters, the threaded         *)
(* permutation driver of main and the significance calculation.            *)
(*                                                                         *)
(* The model starts where main has read its inputs, merged and swapped     *)
(* them (line 289): a_lapper and b_lapper are the sets main works on, and  *)
(* an unmerged set stands for a run with no_merge.                         *)
(*                                                                         *)
(* Coordinates, counts and lengths are u64/u32 in the source; every value  *)
(* of the model stays below 2^31, so no integer arithmetic of the source   *)
(* wraps inside the bounds.  The only subtraction that can go below zero   *)
(* is the length stop - start of an interval whose stop is smaller than    *)
(* its start; IvLen keeps it as a (negative) integer.  The f32 arithmetic  *)
(* of chunk_size is modelled with its rounding; the f64 statistics are     *)
(* kept as exact fractions, which f64 represents exactly at these sizes.   *)
(***************************************************************************)
EXTENDS Integers, Sequences, FiniteSets, TLC

\* ------------------------------------------------------------------ bounds
MaxChroms == 2
MaxSpan == 4
MaxIv == 2
MaxTimes == 4
MaxThreads == 3
MaxClock == 1
MaxCount == 3
MaxTrials == 3
EdgeWidth == 3

\* ------------------------------------------------------- program constants
NOVLMAGIC == 10000

\* 2^24: up to here every integer is an f32 (line 314 converts to f32).
F32Exact == 16777216

VARIABLES
    genome,                 \* io::GenomeShift {chrom, span, gap_budget}
    a_lapper,               \* the interval set that is randomized
    b_lapper,               \* the fixed comparator
    per_chrom,              \* args.per_chrom
    random,                 \* args.random: "Shuffle" | "Circle" | "Novl"
    counter,                \* args.count: "Any" | "All"
    pc,                     \* position of the main thread
    pushed,                 \* what each loop iteration of the last randomizer call pushed to ret
    ret,                    \* the Lapper the last randomizer call returned
    num_times,              \* args.num_times
    threads,                \* args.threads
    chunk_size,
    handles,                \* one record per spawned worker
    all_counts,
    clock,                  \* the reading ClockSeed takes
    seeds,                  \* per worker, the seeds its randomizer calls obtained
    joined,                 \* how many handles main has joined
    initial_overlap_count,
    mu, sd, alt, g_count, p_val, z_score

vars == <<genome, a_lapper, b_lapper, per_chrom, random, counter, pc, pushed, ret,
          num_times, threads, chunk_size, handles, all_counts, clock, seeds, joined,
          initial_overlap_count, mu, sd, alt, g_count, p_val, z_score>>

inputVars == <<a_lapper, b_lapper, per_chrom, random, counter, num_times, threads>>

trialVars == <<pushed, ret>>

workerVars == <<chunk_size, handles, seeds, joined>>

statVars == <<mu, sd, alt, g_count, p_val, z_score>>

\* ------------------------------------------------------------- intervals
Iv(s, e) == [start |-> s, stop |-> e, val |-> 0]

IvLen(i) == i.stop - i.start

Max(a, b) == IF a >= b THEN a ELSE b

Min(a, b) == IF a <= b THEN a ELSE b

RECURSIVE SumSeq(_)
SumSeq(s) == IF s = <<>> THEN 0 ELSE Head(s) + SumSeq(Tail(s))

RECURSIVE Flatten(_)
Flatten(ss) == IF ss = <<>> THEN <<>> ELSE Head(ss) \o Flatten(Tail(ss))

IvLess(x, y) == x.start < y.start \/ (x.start = y.start /\ x.stop <= y.stop)

RECURSIVE InsertIv(_, _)
InsertIv(x, s) ==
    IF s = <<>> THEN <<x>>
    ELSE IF IvLess(x, Head(s)) THEN <<x>> \o s
    ELSE <<Head(s)>> \o InsertIv(x, Tail(s))

RECURSIVE SortIv(_)
SortIv(s) == IF s = <<>> THEN <<>> ELSE InsertIv(Head(s), SortIv(Tail(s)))

\* Lapper::new: the intervals, sorted.
LapperNew(v) == SortIv(v)

\* Lapper::find: the intervals overlapping [start, stop), in order.
Find(lap, start, stop) ==
    SelectSeq(lap, LAMBDA i : i.start < stop /\ i.stop > start)

\* Lapper::cov: the number of positions covered by at least one interval.
Cov(lap) ==
    Cardinality(UNION {lap[k].start .. (lap[k].stop - 1) : k \in DOMAIN lap})

\* ----------------------------------------------------------- the inputs
RECURSIVE ChromsFrom(_, _)
ChromsFrom(lens, at) ==
    IF lens = <<>> THEN <<>>
    ELSE <<[start |-> at, stop |-> at + Head(lens), val |-> Head(lens)]>>
         \o ChromsFrom(Tail(lens), at + Head(lens))

\* A genome: chromosomes laid end to end from 0, val holding each one's
\* length, span their sum, no gap budget yet.
GenomeOf(lens) ==
    [chrom |-> ChromsFrom(lens, 0), span |-> SumSeq(lens), gap_budget |-> <<>>]

\* Every genome of up to MaxChroms chromosomes and up to MaxSpan bases.
Genomes ==
    {GenomeOf(lens) :
        lens \in {l \in UNION {[1..n -> 1..MaxSpan] : n \in 1..MaxChroms} :
                    SumSeq(l) <= MaxSpan}}

\* The intervals a BED file can hold for genome g: each inside one chromosome.
IvsOf(g) ==
    UNION {{i \in {Iv(s, e) : s \in g.chrom[c].start .. (g.chrom[c].stop - 1),
                              e \in (g.chrom[c].start + 1) .. g.chrom[c].stop} :
              i.start < i.stop}
           : c \in DOMAIN g.chrom}

Lappers(g) ==
    {LapperNew(v) : v \in UNION {[1..n -> IvsOf(g)] : n \in 0..MaxIv}}

\* No two intervals overlap or touch: what merge_overlaps leaves.
Merged(lap) ==
    \A j, k \in DOMAIN lap : j < k => lap[j].stop < lap[k].start

\* ------------------------------------------------------------ randomizers
\* The bounding window of interval i: the first chromosome it intersects in
\* per-chromosome mode (val: that chromosome's length), else the whole genome.
\* <<>> when no chromosome intersects it (the source panics).
Window(i, g, pchrom) ==
    IF pchrom
    THEN LET hits == Find(g.chrom, i.start, i.stop)
         IN  IF hits = <<>> THEN <<>>
             ELSE <<[lower |-> hits[1].start, upper |-> hits[1].stop, val |-> hits[1].val]>>
    ELSE <<[lower |-> 0, upper |-> g.span, val |-> g.span]>>

\* rand.next_range(lower..(upper - len)): the values of a half-open range;
\* none when the range is empty (next_range panics).
ShuffleShifts(i, w) == w.lower .. (w.upper - IvLen(i) - 1)

ShuffleOne(i, shift) == Iv(i.start + shift, i.stop + shift)

\* Every value of ret that shuffle_intervals can build, one entry per loop
\* iteration; empty when the call panics.
RECURSIVE ShuffleOutcomes(_, _, _)
ShuffleOutcomes(intv, g, pchrom) ==
    IF intv = <<>> THEN {<<>>}
    ELSE LET i == Head(intv)
             w == Window(i, g, pchrom)
         IN  IF w = <<>> THEN {}
             ELSE {<<<<ShuffleOne(i, shift)>>>> \o rest :
                      shift \in ShuffleShifts(i, w[1]),
                      rest \in ShuffleOutcomes(Tail(intv), g, pchrom)}

\* One iteration of circle_intervals' loop: what it pushes for interval i.
CircleOne(i, lower, upper, shift) ==
    LET new_start == i.start + shift
        new_end == i.stop + shift
    IN  IF new_start >= upper
        THEN <<Iv(new_start - upper, new_end - upper)>>
        ELSE IF new_end > upper
        THEN <<Iv(new_start, upper), Iv(lower, new_end - upper)>>
        ELSE <<Iv(new_start, new_end)>>

CircleShift(w, genome_shift, pchrom) ==
    IF pchrom THEN genome_shift % w.val ELSE genome_shift

RECURSIVE CirclePushes(_, _, _, _)
CirclePushes(intv, g, pchrom, genome_shift) ==
    IF intv = <<>> THEN <<>>
    ELSE LET i == Head(intv)
             w == Window(i, g, pchrom)[1]
         IN  <<CircleOne(i, w.lower, w.upper, CircleShift(w, genome_shift, pchrom))>>
             \o CirclePushes(Tail(intv), g, pchrom, genome_shift)

\* Every value of ret that circle_intervals can build; empty when it panics.
CircleOutcomes(intv, g, pchrom) ==
    IF \E k \in DOMAIN intv : Window(intv[k], g, pchrom) = <<>> THEN {}
    ELSE {CirclePushes(intv, g, pchrom, genome_shift) : genome_shift \in 0 .. (g.span - 1)}

\* The while loop of novl_intervals: every list of gap pieces it can draw
\* from a budget of m_gap.
RECURSIVE GapPieces(_)
GapPieces(m_gap) ==
    IF m_gap = 0 THEN {<<>>}
    ELSE UNION {{<<<<FALSE, g_l>>>> \o rest : rest \in GapPieces(m_gap - g_l)} :
                   g_l \in 1 .. (Max(2, m_gap \div NOVLMAGIC) - 1)}

RemoveAt(s, k) == SubSeq(s, 1, k - 1) \o SubSeq(s, k + 1, Len(s))

\* fastrand::shuffle: every order of the list.  Equal pieces give equal
\* orders, so only the first of each run of equal pieces is tried in front.
RECURSIVE Shuffles(_)
Shuffles(s) ==
    IF s = <<>> THEN {<<>>}
    ELSE UNION {{<<s[k]>> \o rest : rest \in Shuffles(RemoveAt(s, k))} :
                   k \in {k \in DOMAIN s : \A j \in 1 .. (k - 1) : s[j] # s[k]}}

\* Sweep with the cursor advanced by the gap pieces only.
RECURSIVE SweepNoAdvance(_, _)
SweepNoAdvance(cur_intervals, cur_pos) ==
    IF cur_intervals = <<>> THEN <<>>
    ELSE LET i == Head(cur_intervals)
         IN  (IF i[1] THEN <<Iv(cur_pos, cur_pos + i[2])>> ELSE <<>>)
             \o SweepNoAdvance(Tail(cur_intervals), IF i[1] THEN cur_pos ELSE cur_pos + i[2])

\* The sweep of novl_intervals: lay the pieces end to end from cur_pos,
\* emitting the real ones.
RECURSIVE Sweep(_, _)
Sweep(cur_intervals, cur_pos) ==
    IF cur_intervals = <<>> THEN <<>>
    ELSE LET i == Head(cur_intervals)
         IN  (IF i[1] THEN <<Iv(cur_pos, cur_pos + i[2])>> ELSE <<>>)
             \o Sweep(Tail(cur_intervals), cur_pos + i[2])

NovlSpans(g, pchrom) ==
    IF pchrom THEN g.chrom ELSE <<[start |-> 0, stop |-> g.span, val |-> 0]>>

RealPieces(intv, subi) ==
    LET found == Find(intv, subi.start, subi.stop)
    IN  [k \in DOMAIN found |-> <<TRUE, IvLen(found[k])>>]

\* What one iteration of the loop over spans can push for region subi.
NovlRegion(subi, intv, g) ==
    {Sweep(order, subi.start) :
        order \in UNION {Shuffles(pieces \o RealPieces(intv, subi)) :
                            pieces \in GapPieces(g.gap_budget[1][subi.start])}}

RECURSIVE NovlOver(_, _, _)
NovlOver(spans, intv, g) ==
    IF spans = <<>> THEN {<<>>}
    ELSE {<<first>> \o rest : first \in NovlRegion(Head(spans), intv, g),
                              rest \in NovlOver(Tail(spans), intv, g)}

\* Every value of ret that novl_intervals can build; empty when it panics
\* (no gap budget, or no entry for a region).
NovlOutcomes(intv, g, pchrom) ==
    IF g.gap_budget = <<>> THEN {}
    ELSE IF \E k \in DOMAIN NovlSpans(g, pchrom) :
               NovlSpans(g, pchrom)[k].start \notin DOMAIN g.gap_budget[1] THEN {}
    ELSE NovlOver(NovlSpans(g, pchrom), intv, g)

\* main's choice of randomizer (a function pointer in the source).
Randomizer(which, intv, g, pchrom) ==
    CASE which = "Shuffle" -> ShuffleOutcomes(intv, g, pchrom)
      [] which = "Circle" -> CircleOutcomes(intv, g, pchrom)
      [] which = "Novl" -> NovlOutcomes(intv, g, pchrom)

\* make_gap_budget.
MakeGapBudget(g, intervals, pchrom) ==
    IF ~pchrom
    THEN [key \in {0} |-> g.span - Cov(intervals)]
    ELSE [key \in {g.chrom[c].start : c \in DOMAIN g.chrom} |->
            LET i == CHOOSE x \in {g.chrom[c] : c \in DOMAIN g.chrom} : x.start = key
                found == Find(intervals, i.start, i.stop)
            IN  SumSeq([k \in DOMAIN found |-> IvLen(found[k])])]

\* ---------------------------------------------------------- overlappers
\* get_num_overlap_count.
GetNumOverlapCount(a_lap, b_lap) ==
    SumSeq([k \in DOMAIN a_lap |-> Len(Find(b_lap, a_lap[k].start, a_lap[k].stop))])

\* get_any_overlap_count.
GetAnyOverlapCount(a_lap, b_lap) ==
    SumSeq([k \in DOMAIN a_lap |->
              IF Find(b_lap, a_lap[k].start, a_lap[k].stop) # <<>> THEN 1 ELSE 0])

\* main's choice of overlapper.
Overlapper(which, a_lap, b_lap) ==
    IF which = "Any" THEN GetAnyOverlapCount(a_lap, b_lap)
    ELSE GetNumOverlapCount(a_lap, b_lap)

\* ------------------------------------------------- significance calculator
\* f64 values are kept exact: a mean is the fraction num/den, a standard
\* deviation the square root of the fraction sq_num/sq_den.
RECURSIVE SumSqDev(_, _, _)
SumSqDev(v, n, s) ==
    IF v = <<>> THEN 0
    ELSE (n * Head(v) - s) * (n * Head(v) - s) + SumSqDev(Tail(v), n, s)

\* mean_std: mean = sum / n, variance = sum((x - mean)^2) / n, std = sqrt(variance).
MeanStd(v) ==
    LET n == Len(v)
        s == SumSeq(v)
    IN  [mean |-> [num |-> s, den |-> n],
         std |-> [sq_num |-> SumSqDev(v, n, s), sq_den |-> n * n * n]]

\* main, lines 341-345.
Alt(o_count, mean) == IF o_count * mean.den < mean.num THEN "l" ELSE "g"

\* count_permutations with the two comparisons exchanged.
RECURSIVE CountPermutationsSwapped(_, _, _)
CountPermutationsSwapped(o_count, obs, a) ==
    IF obs = <<>> THEN 0
    ELSE (IF a = "l" THEN (IF o_count <= Head(obs) THEN 1 ELSE 0)
          ELSE IF a = "g" THEN (IF o_count >= Head(obs) THEN 1 ELSE 0)
          ELSE 0)
         + CountPermutationsSwapped(o_count, Tail(obs), a)

\* count_permutations.
RECURSIVE CountPermutations(_, _, _)
CountPermutations(o_count, obs, a) ==
    IF obs = <<>> THEN 0
    ELSE (IF a = "l" THEN (IF o_count >= Head(obs) THEN 1 ELSE 0)
          ELSE IF a = "g" THEN (IF o_count <= Head(obs) THEN 1 ELSE 0)
          ELSE 0)
         + CountPermutations(o_count, Tail(obs), a)

\* The p-value without the add-one smoothing.
PValUnsmoothed(g, n) == [num |-> g, den |-> n]

\* main, line 347.
PVal(g, n) == [num |-> g + 1, den |-> n + 1]

FZero == [kind |-> "finite", num |-> 0, den |-> 1, sq_num |-> 1, sq_den |-> 1]

\* The f64 division (o_count - mean) / std: IEEE 754 gives an infinity or a
\* NaN for a zero divisor, and does not trap.
FDiv(o_count, mean, std) ==
    LET top == o_count * mean.den - mean.num
    IN  IF std.sq_num = 0
        THEN [kind |-> IF top > 0 THEN "+inf" ELSE IF top < 0 THEN "-inf" ELSE "nan",
              num |-> 0, den |-> 1, sq_num |-> 1, sq_den |-> 1]
        ELSE IF top = 0 THEN FZero
        ELSE [kind |-> "finite", num |-> top, den |-> mean.den,
              sq_num |-> std.sq_num, sq_den |-> std.sq_den]

\* main, lines 349-354.
ZScore(o_count, mean, std) ==
    IF o_count = 0 /\ mean.num = 0 THEN FZero ELSE FDiv(o_count, mean, std)

\* ------------------------------------------------------------------ main
NoMean == [num |-> 0, den |-> 1]

NoStd == [sq_num |-> 0, sq_den |-> 1]

NoPVal == [num |-> 0, den |-> 1]

InitRest ==
    /\ pushed = <<>>
    /\ ret = <<>>
    /\ chunk_size = 0
    /\ handles = <<>>
    /\ seeds = <<>>
    /\ joined = 0
    /\ clock = 0
    /\ mu = NoMean
    /\ sd = NoStd
    /\ alt = "?"
    /\ g_count = 0
    /\ p_val = NoPVal
    /\ z_score = FZero

\* main, lines 293-300: only Novl builds the gap budget.
SelectRandomizer ==
    /\ pc = "setup"
    /\ genome' = IF random = "Novl"
                 THEN [genome EXCEPT !.gap_budget = <<MakeGapBudget(genome, a_lapper, per_chrom)>>]
                 ELSE genome
    /\ pc' = "observe"
    /\ UNCHANGED <<inputVars, trialVars, workerVars, statVars, all_counts, clock,
                   initial_overlap_count>>

\* main, line 310.
Observe ==
    /\ pc = "observe"
    /\ initial_overlap_count' = Overlapper(counter, a_lapper, b_lapper)
    /\ pc' = "spawn"
    /\ UNCHANGED <<genome, inputVars, trialVars, workerVars, statVars, all_counts, clock>>

RECURSIVE FloorLog2(_)
FloorLog2(x) == IF x < 2 THEN 0 ELSE 1 + FloorLog2(x \div 2)

RECURSIVE Pow2(_)
Pow2(k) == IF k = 0 THEN 1 ELSE 2 * Pow2(k - 1)

\* n as f32, for 0 <= n < 2^25: an f32 has a 24-bit significand, so above
\* F32Exact = 2^24 only the even integers exist, and an odd n is rounded to
\* the neighbour whose significand is even.
AsF32(n) ==
    IF n <= F32Exact \/ n % 2 = 0 THEN n
    ELSE IF ((n - 1) \div 2) % 2 = 0 THEN n - 1 ELSE n + 1

\* (a / b).ceil() as u32 for the f32 values a and b, b > 0: the quotient is
\* rounded to the nearest f32 (ties to the even significand) before ceil sees
\* it, so a quotient within half an ulp above an integer loses its fraction.
F32DivCeil(a, b) ==
    LET fl == a \div b
        r == a % b
    IN  IF r = 0 THEN fl
        ELSE IF fl = 0 THEN 1
        ELSE IF fl >= F32Exact \div 2
        THEN (IF 2 * r < b THEN fl
              ELSE IF 2 * r > b THEN fl + 1
              ELSE IF fl % 2 = 0 THEN fl ELSE fl + 1)
        ELSE IF r * Pow2(24 - FloorLog2(fl)) <= b THEN fl ELSE fl + 1

\* chunk_size (line 314): ((num_times as f32) / (threads as f32)).ceil() as u32.
ChunkSize(n, t) == F32DivCeil(AsF32(n), AsF32(t))

StartIter(i, chunk) == i * chunk

\* stop_iter without the clamp to num_times.
StopIterUnclamped(i, chunk, n) == StartIter(i, chunk) + chunk

StopIter(i, chunk, n) == Min(StartIter(i, chunk) + chunk, n)

\* One iteration of the loop at line 316: worker i (counted from 0) is
\* spawned with its range of trial indices, and runs from then on.
Spawn ==
    /\ pc = "spawn"
    /\ Len(handles) < threads
    /\ LET i == Len(handles)
           chunk == ChunkSize(num_times, threads)
       IN  /\ chunk_size' = chunk
           /\ handles' = Append(handles,
                  [start_iter |-> StartIter(i, chunk),
                   stop_iter |-> StopIter(i, chunk, num_times),
                   cur |-> StartIter(i, chunk),
                   result |-> <<>>,
                   panicked |-> FALSE])
           /\ seeds' = Append(seeds, {})
    /\ UNCHANGED <<genome, inputVars, trialVars, statVars, all_counts, clock, joined,
                   pc, initial_overlap_count>>

\* The loop at line 316 ends.
SpawnDone ==
    /\ pc = "spawn"
    /\ Len(handles) = threads
    /\ pc' = "collect"
    /\ UNCHANGED <<genome, inputVars, trialVars, workerVars, statVars, all_counts, clock,
                   initial_overlap_count>>

Finished(h) == h.panicked \/ h.cur >= h.stop_iter

\* One trial of worker w (line 325): the randomizer seeds its generator from
\* the clock, randomizes, and the overlapper counts.
Trial(w) ==
    /\ w \in DOMAIN handles
    /\ ~Finished(handles[w])
    /\ Randomizer(random, a_lapper, genome, per_chrom) # {}
    /\ \E o \in Randomizer(random, a_lapper, genome, per_chrom) :
          handles' = [handles EXCEPT
              ![w].cur = @ + 1,
              ![w].result = Append(@, Overlapper(counter, LapperNew(Flatten(o)), b_lapper))]
    /\ seeds' = [seeds EXCEPT ![w] = @ \cup {clock}]
    /\ UNCHANGED <<genome, inputVars, trialVars, statVars, all_counts, clock, joined, pc,
                   chunk_size, initial_overlap_count>>

\* A trial whose randomizer panics: the worker thread dies.
TrialPanic(w) ==
    /\ w \in DOMAIN handles
    /\ ~Finished(handles[w])
    /\ Randomizer(random, a_lapper, genome, per_chrom) = {}
    /\ handles' = [handles EXCEPT ![w].panicked = TRUE]
    /\ seeds' = [seeds EXCEPT ![w] = @ \cup {clock}]
    /\ UNCHANGED <<genome, inputVars, trialVars, statVars, all_counts, clock, joined, pc,
                   chunk_size, initial_overlap_count>>

\* Time passes: the clock's reading changes.
Tick ==
    /\ pc \in {"spawn", "collect"}
    /\ clock < MaxClock
    /\ clock' = clock + 1
    /\ UNCHANGED <<genome, inputVars, trialVars, workerVars, statVars, all_counts, pc,
                   initial_overlap_count>>

\* One iteration of the loop at line 332: join the next handle, in spawn
\* order, and extend all_counts by its result.
Join ==
    /\ pc = "collect"
    /\ joined < Len(handles)
    /\ Finished(handles[joined + 1])
    /\ ~handles[joined + 1].panicked
    /\ all_counts' = all_counts \o handles[joined + 1].result
    /\ joined' = joined + 1
    /\ UNCHANGED <<genome, inputVars, trialVars, statVars, clock, pc, chunk_size, handles,
                   seeds, initial_overlap_count>>

\* handle.join().unwrap() on a worker that panicked: main panics.
JoinPanic ==
    /\ pc = "collect"
    /\ joined < Len(handles)
    /\ handles[joined + 1].panicked
    /\ pc' = "panic"
    /\ UNCHANGED <<genome, inputVars, trialVars, workerVars, statVars, all_counts, clock,
                   initial_overlap_count>>

\* The loop at line 332 ends.
CollectDone ==
    /\ pc = "collect"
    /\ joined = Len(handles)
    /\ pc' = "calculate"
    /\ UNCHANGED <<genome, inputVars, trialVars, workerVars, statVars, all_counts, clock,
                   initial_overlap_count>>

\* main, lines 340-354.
Calculate ==
    /\ pc = "calculate"
    /\ LET ms == MeanStd(all_counts)
           a == Alt(initial_overlap_count, ms.mean)
           g == CountPermutations(initial_overlap_count, all_counts, a)
       IN  /\ mu' = ms.mean
           /\ sd' = ms.std
           /\ alt' = a
           /\ g_count' = g
           /\ p_val' = PVal(g, Len(all_counts))
           /\ z_score' = ZScore(initial_overlap_count, ms.mean, ms.std)
    /\ pc' = "done"
    /\ UNCHANGED <<genome, inputVars, trialVars, workerVars, all_counts, clock,
                   initial_overlap_count>>

\* One call of the closure at line 325, with what the randomizer built kept
\* in pushed and ret.
RunShuffle ==
    /\ pc = "spawn"
    /\ random = "Shuffle"
    /\ \E o \in ShuffleOutcomes(a_lapper, genome, per_chrom) :
          /\ pushed' = o
          /\ ret' = LapperNew(Flatten(o))
    /\ pc' = "returned"
    /\ UNCHANGED <<genome, inputVars, workerVars, statVars, all_counts, clock,
                   initial_overlap_count>>

RunCircle ==
    /\ pc = "spawn"
    /\ random = "Circle"
    /\ \E o \in CircleOutcomes(a_lapper, genome, per_chrom) :
          /\ pushed' = o
          /\ ret' = LapperNew(Flatten(o))
    /\ pc' = "returned"
    /\ UNCHANGED <<genome, inputVars, workerVars, statVars, all_counts, clock,
                   initial_overlap_count>>

RunNovl ==
    /\ pc = "spawn"
    /\ random = "Novl"
    /\ \E o \in NovlOutcomes(a_lapper, genome, per_chrom) :
          /\ pushed' = o
          /\ ret' = LapperNew(Flatten(o))
    /\ pc' = "returned"
    /\ UNCHANGED <<genome, inputVars, workerVars, statVars, all_counts, clock,
                   initial_overlap_count>>

RunPanic ==
    /\ pc = "spawn"
    /\ Randomizer(random, a_lapper, genome, per_chrom) = {}
    /\ pc' = "panic"
    /\ UNCHANGED <<genome, inputVars, trialVars, workerVars, statVars, all_counts, clock,
                   initial_overlap_count>>

\* ------------------------------------------------------- specifications
\* The whole of main, from the setup on, for a small family of inputs: a
\* genome of two chromosomes, the second starting above 0; one interval of A
\* in the second chromosome, ending at the genome's end; B empty or the
\* genome's first base.
EngineGenome == GenomeOf(<<1, MaxSpan - 1>>)

EngineA == {<<Iv(s, EngineGenome.span)>> : s \in 1 .. (EngineGenome.span - 1)}

EngineB == {<<>>, <<Iv(0, 1)>>}

Init ==
    /\ genome = EngineGenome
    /\ a_lapper \in EngineA
    /\ b_lapper \in EngineB
    /\ per_chrom \in BOOLEAN
    /\ random \in {"Shuffle", "Circle", "Novl"}
    /\ counter \in {"Any", "All"}
    /\ num_times \in 1..MaxTimes
    /\ threads \in 1..MaxThreads
    /\ pc = "setup"
    /\ all_counts = <<>>
    /\ initial_overlap_count = 0
    /\ InitRest

Next ==
    \/ SelectRandomizer
    \/ Observe
    \/ Spawn
    \/ SpawnDone
    \/ \E w \in 1..MaxThreads : Trial(w)
    \/ \E w \in 1..MaxThreads : TrialPanic(w)
    \/ Tick
    \/ Join
    \/ JoinPanic
    \/ CollectDone
    \/ Calculate

Spec == Init /\ [][Next]_vars

\* The split of the trials over the workers (lines 313-328) alone, for trial
\* counts within the bounds and around 2^24, where num_times as f32 starts to
\* round.  The workers are not run here.
InitChunk ==
    /\ genome = EngineGenome
    /\ a_lapper = <<>>
    /\ b_lapper = <<>>
    /\ per_chrom = FALSE
    /\ random = "Shuffle"
    /\ counter = "All"
    /\ num_times \in (1..MaxTimes) \cup ((F32Exact - EdgeWidth) .. (F32Exact + EdgeWidth))
    /\ threads \in 1..MaxThreads
    /\ pc = "spawn"
    /\ all_counts = <<>>
    /\ initial_overlap_count = 0
    /\ InitRest

NextChunk ==
    \/ Spawn
    \/ SpawnDone

SpecChunk == InitChunk /\ [][NextChunk]_vars

\* One randomizer call on every genome and interval set within the bounds
\* (B plays no part in the call and is left empty).
InitRand ==
    /\ genome \in Genomes
    /\ a_lapper \in Lappers(genome)
    /\ b_lapper = <<>>
    /\ per_chrom \in BOOLEAN
    /\ random \in {"Shuffle", "Circle", "Novl"}
    /\ counter = "All"
    /\ num_times = 1
    /\ threads = 1
    /\ pc = "setup"
    /\ all_counts = <<>>
    /\ initial_overlap_count = 0
    /\ InitRest

NextRand ==
    \/ SelectRandomizer
    \/ Observe
    \/ RunShuffle
    \/ RunCircle
    \/ RunNovl
    \/ RunPanic

SpecRand == InitRand /\ [][NextRand]_vars

\* The significance calculation on every observed count and trial vector
\* within the bounds.
InitStats ==
    /\ genome = EngineGenome
    /\ a_lapper = <<>>
    /\ b_lapper = <<>>
    /\ per_chrom = FALSE
    /\ random = "Shuffle"
    /\ counter = "All"
    /\ num_times \in 1..MaxTrials
    /\ threads = 1
    /\ pc = "calculate"
    /\ all_counts \in [1..num_times -> 0..MaxCount]
    /\ initial_overlap_count \in 0..MaxCount
    /\ InitRest

NextStats == Calculate

SpecStats == InitStats /\ [][NextStats]_vars

\* ---------------------------------------------------------------- claims
LenCount(lap, l) == Cardinality({k \in DOMAIN lap : IvLen(lap[k]) = l})

SameLengths(x, y) ==
    \A l \in {IvLen(x[k]) : k \in DOMAIN x} \cup {IvLen(y[k]) : k \in DOMAIN y} :
        LenCount(x, l) = LenCount(y, l)

Inside(i, lower, upper) == lower <= i.start /\ i.start < i.stop /\ i.stop <= upper

Disjoint(x, y) == x.stop <= y.start \/ y.stop <= x.start

\* C1: every randomizer preserves the lengths of the intervals: the output of
\* shuffle_intervals and of novl_intervals has the lengths of the input as a
\* multiset, and each input interval of circle_intervals yields either one
\* interval of its length or two pieces whose lengths sum to its length.
C1_LengthPreservation ==
    pc = "returned" =>
        /\ random \in {"Shuffle", "Novl"} => SameLengths(ret, a_lapper)
        /\ random = "Circle" =>
              \A k \in DOMAIN a_lapper :
                  /\ Len(pushed[k]) \in {1, 2}
                  /\ SumSeq([j \in DOMAIN pushed[k] |-> IvLen(pushed[k][j])])
                        = IvLen(a_lapper[k])

\* C2: no two intervals that novl_intervals lays out in one region overlap.
C2_NovlNoOverlap ==
    (pc = "returned" /\ random = "Novl") =>
        \A r \in DOMAIN pushed :
            \A j, k \in DOMAIN pushed[r] :
                j # k => Disjoint(pushed[r][j], pushed[r][k])

\* A novl run that laid two intervals out in one region, gap pieces between them.
C2_Witness ==
    /\ pc = "returned"
    /\ random = "Novl"
    /\ \E r \in DOMAIN pushed :
          /\ Len(pushed[r]) >= 2
          /\ pushed[r][1].stop < pushed[r][2].start

\* C3: every interval shuffle_intervals relocates lies inside the bounding
\* window of the interval it came from.
C3_ShuffleContained ==
    (pc = "returned" /\ random = "Shuffle") =>
        \A k \in DOMAIN a_lapper :
            LET w == Window(a_lapper[k], genome, per_chrom)[1]
            IN  Inside(pushed[k][1], w.lower, w.upper)

\* C4: with the gap budget make_gap_budget built from the same merged set and
\* the same per_chrom flag, every interval novl_intervals lays out lies inside
\* its region, and the sweep ends at or before the region's stop.
C4_NovlContained ==
    (pc = "returned" /\ random = "Novl" /\ Merged(a_lapper)) =>
        \A r \in DOMAIN pushed :
            LET subi == NovlSpans(genome, per_chrom)[r]
            IN  /\ \A j \in DOMAIN pushed[r] : Inside(pushed[r][j], subi.start, subi.stop)
                /\ subi.start + genome.gap_budget[1][subi.start]
                     + SumSeq([j \in DOMAIN pushed[r] |-> IvLen(pushed[r][j])]) <= subi.stop

\* C5: every interval circle_intervals emits (shifted, wrapped, or a piece of
\* a split) lies inside the wrap window of the interval it came from.
C5_CircleInWindow ==
    (pc = "returned" /\ random = "Circle") =>
        \A k \in DOMAIN a_lapper :
            LET w == Window(a_lapper[k], genome, per_chrom)[1]
            IN  \A j \in DOMAIN pushed[k] : Inside(pushed[k][j], w.lower, w.upper)

NumAtMostObs ==
    Cardinality({k \in DOMAIN all_counts : all_counts[k] <= initial_overlap_count})

NumAtLeastObs ==
    Cardinality({k \in DOMAIN all_counts : all_counts[k] >= initial_overlap_count})

AltIsMeanTest ==
    /\ alt \in {"l", "g"}
    /\ alt = "l" <=> initial_overlap_count * Len(all_counts) < SumSeq(all_counts)

C7_PValueBounds ==
    pc = "done" =>
        LET n == Len(all_counts)
        IN  /\ n >= 1
            /\ 0 <= g_count /\ g_count <= n
            /\ p_val.den > 0
            /\ p_val.num * (n + 1) = (g_count + 1) * p_val.den
            /\ 0 < p_val.num /\ p_val.num <= p_val.den
            /\ (p_val.num * (n + 1) = p_val.den) <=> (g_count = 0)

\* A calculation in which no trial is as extreme as obs: the smallest p-value.
C7_Witness ==
    /\ pc = "done"
    /\ g_count = 0
    /\ Len(all_counts) > 1

AllTrialsZero == \A k \in DOMAIN all_counts : all_counts[k] = 0

AllTrialsEqual == \A j, k \in DOMAIN all_counts : all_counts[j] = all_counts[k]

\* C8: z_score is 0 whenever std = 0 (all trials equal) and
\* obs = 0, and (obs - mean) / std in every other case.
C8_DegenerateZScore ==
    pc = "done" =>
        z_score = IF AllTrialsEqual /\ initial_overlap_count = 0
                  THEN FZero
                  ELSE FDiv(initial_overlap_count, mu, sd)

\* C8, what main computes instead: z_score is 0, with no division, only when
\* obs = 0 and the mean of the trials is 0; in every other case it is the f64
\* quotient (obs - mean) / std, which for std = 0 is -infinity, +infinity or
\* NaN as obs is below, above or equal to the mean.
C8_ZScoreGuard ==
    pc = "done" =>
        LET n == Len(all_counts)
            top == initial_overlap_count * n - SumSeq(all_counts)
        IN  /\ (sd.sq_num = 0) <=> AllTrialsEqual
            /\ IF initial_overlap_count = 0 /\ AllTrialsZero
               THEN z_score = FZero /\ sd.sq_num = 0
               ELSE IF AllTrialsEqual
               THEN z_score.kind = (IF top < 0 THEN "-inf"
                                    ELSE IF top > 0 THEN "+inf" ELSE "nan")
               ELSE /\ z_score.kind = "finite"
                    /\ z_score.num * n = top * z_score.den
                    /\ top # 0 =>
                          z_score.sq_num * sd.sq_den = sd.sq_num * z_score.sq_den

RunsIndex(h, idx) == h.start_iter <= idx /\ idx < h.stop_iter

RangeLen(h) == Max(0, h.stop_iter - h.start_iter)

\* C9: once every worker is spawned, every trial index in 0..N-1 lies in the
\* range of exactly one worker: the ranges lie inside 0..N-1, are pairwise
\* disjoint, and hold N indices in all (so N statistics are collected).
C9_ExactlyNTrials ==
    pc = "collect" =>
        /\ Len(handles) = threads
        /\ \A w \in DOMAIN handles :
              RangeLen(handles[w]) > 0 =>
                  handles[w].start_iter >= 0 /\ handles[w].stop_iter <= num_times
        /\ \A v, w \in DOMAIN handles :
              (v < w /\ RangeLen(handles[v]) > 0 /\ RangeLen(handles[w]) > 0) =>
                  handles[v].stop_iter <= handles[w].start_iter
        /\ SumSeq([w \in DOMAIN handles |-> RangeLen(handles[w])]) = num_times

\* C9, for the trial counts within MaxTimes, with the workers run: no worker
\* runs a trial outside its range, every index of 0..N-1 is in exactly one
\* range, and all_counts holds N statistics once every worker is joined.
C9_SmallRunsCollectN ==
    /\ pc \in {"collect", "calculate", "done"} =>
          /\ Len(handles) = threads
          /\ \A idx \in 0 .. (num_times - 1) :
                Cardinality({w \in DOMAIN handles : RunsIndex(handles[w], idx)}) = 1
    /\ \A w \in DOMAIN handles :
          /\ Len(handles[w].result) = handles[w].cur - handles[w].start_iter
          /\ handles[w].result # <<>> => RunsIndex(handles[w], handles[w].cur - 1)
          /\ handles[w].start_iter >= num_times => handles[w].result = <<>>
    /\ pc \in {"calculate", "done"} => Len(all_counts) = num_times

\* C10: two randomizer calls made by different workers never obtain the same
\* seed.
C10_SeedsDistinct ==
    \A v, w \in DOMAIN seeds : v # w => seeds[v] \cap seeds[w] = {}
====
